---- MODULE Spec2Model ----
(***************************************************************************)
(* Forward-scrub thrasher of qa/tasks/fwd_scrub.py.                        *)
(*                                                                         *)
(* Units of execution are gevent greenlets: one ForwardScrubber per        *)
(* filesystem, one MDSRankScrubber per rank and iteration, and the task    *)
(* greenlet that runs stop_all_fwd_scrubbers at teardown.  Greenlets are   *)
(* scheduled cooperatively, so an action is the code a greenlet runs from  *)
(* one suspension point to the next.  The suspension points are the remote *)
(* commands (rank_tell, get_all_mds_rank), sleep, joinall, join, a blocking*)
(* killall and lock.acquire on a held lock.                                *)
(*                                                                         *)
(* contextutil.safe_while (teuthology) is used with its default            *)
(* _raise=True: the first proceed() returns True without sleeping, a later *)
(* proceed() raises MaxWhileTries once counter > tries and otherwise       *)
(* sleeps and returns True.  The model takes scrub_timeout >= 30 only      *)
(* (tries >= 1).                                                           *)
(***************************************************************************)
EXTENDS Naturals, Sequences, FiniteSets

\* ------------------------------------------------------------------ bounds
NumFs == 2          \* filesystems, one ForwardScrubber each
MaxRanks == 2       \* most ranks one discovery returns
MaxTries == 2       \* largest attempt budget scrub_timeout // 30 drawn
NumMds == 2         \* metadata services in a status snapshot
MaxStops == 2       \* most stop() calls made on one thrasher

\* ------------------------------------------------------- program constants
PollSleep == 30     \* safe_while(sleep=30, tries=scrub_timeout//30)
DefaultScrubTimeout == 300      \* ForwardScrubber.__init__(scrub_timeout=300)
DefaultSleep == 1   \* ForwardScrubber.__init__(sleep_between_iterations=1)

Tags == {"t1", "t2"}

\* scrub_timeout values: the multiples of the poll interval up to the bound,
\* and one value that is no multiple.
TimeoutChoices ==
    {PollSleep * k : k \in 1..MaxTries} \cup {PollSleep + 15}

\* Responses of rank_tell(["scrub","start",...]): no JSON at all, or a dict
\* whose scrub_tag is missing, null or a tag.
StartResponses ==
    {[json |-> "None", scrub_tag |-> "missing", return_code |-> 0, mode |-> "asynchronous"]}
    \cup [json : {"dict"}, scrub_tag : {"missing", "null", "t1"},
          return_code : {0, 1}, mode : {"asynchronous", "synchronous"}]

\* The 'scrubs' mapping of a status response: tag -> status, a status being
\* null or a description of the running scrub.
ScrubMaps ==
    UNION {[D -> {"null", "running"}] : D \in SUBSET Tags}

\* Responses of rank_tell(["scrub","status"]).
StatusResponses ==
    {[json |-> "None", status |-> "no active scrubs running", scrubs |-> <<>>]}
    \cup {[json |-> "dict", status |-> "no active scrubs running", scrubs |-> <<>>]}
    \cup [json : {"dict"}, status : {"scrub active"}, scrubs : ScrubMaps]

\* A config that names every option task() reads.
FullConfig(t) ==
    [o \in {"scrub_timeout", "sleep_between_iterations", "cluster"} |->
        IF o = "scrub_timeout" THEN t
        ELSE IF o = "sleep_between_iterations" THEN 1
        ELSE "ceph"]

Options == {"scrub_timeout", "sleep_between_iterations", "cluster"}

\* The configs handed to task(): any of the options may be left out.  A
\* config of None is replaced by the empty dict at line 182.
Configs ==
    {[o \in D |-> FullConfig(t)[o]] : D \in SUBSET Options, t \in TimeoutChoices}

\* States a metadata service reports; line 201 accepts the first three.
MdsStates == {"up:active", "up:standby", "up:standby-replay", "up:replay"}

\* Results of mds_cluster.status(): one state per metadata service.
Snapshots == [1..NumMds -> MdsStates]

\* Results of get_all_mds_rank(): an ordered sequence of distinct ranks.
RankLists(m) == {[i \in 1..n |-> i - 1] : n \in 0..m}

VARIABLES
    fss,            \* filesystems of status.get_filesystems(), 1..n
    max_mds,        \* most ranks get_all_mds_rank returns in this cluster
    scrub_timeout,  \* config['scrub_timeout'], handed to every ForwardScrubber
    stopping,       \* [Fs -> BOOLEAN]  ForwardScrubber.stopping (Event)
    lock,           \* [Fs -> {"free","stop"}]  holder of ForwardScrubber.lock
    scrubbers,      \* [Fs -> Seq(unit)]  ForwardScrubber.scrubbers
    cexc,           \* [Fs -> exception]  ForwardScrubber's captured exception
    cpc,            \* [Fs -> position of the ForwardScrubber greenlet]
    ranks,          \* [Fs -> ranks of the current iteration]
    tpc,            \* position of stop_all_fwd_scrubbers
    ti,             \* index of the thrasher stop_all_fwd_scrubbers is at
    stopped,        \* set of thrashers on which stop() has been called
    calls,          \* [Fs -> number of stop() calls made on the thrasher]
    config,         \* the task's config dict: option name -> value
    snapshot,       \* the task's status: metadata service -> state string
    clean,          \* what manager.is_clean() returned to the task
    sleep_between_iterations  \* handed to every ForwardScrubber

\* What task() reads and fixes before it yields.
taskvars == <<config, snapshot, clean, sleep_between_iterations>>

vars == <<fss, max_mds, scrub_timeout, stopping, lock, scrubbers, cexc, cpc, ranks,
          tpc, ti, stopped, calls, taskvars>>

\* ------------------------------------------------------- MDSRankScrubber
Tries == scrub_timeout \div PollSleep

NoStart == [json |-> "-", scrub_tag |-> "missing", return_code |-> 0, mode |-> "-"]

\* MDSRankScrubber(fs, r, scrub_timeout) followed by start(): the greenlet is
\* scheduled and has not run yet.  exc is the Thrasher exception slot;
\* counter is the safe_while counter.  polls, start, last and seen record
\* the history of the unit: status commands issued, the start response, the
\* kind of the last status answer and the kinds of all status answers.
NewUnit(r) ==
    [rank |-> r, pc |-> "scheduled", counter |-> 0, exc |-> "None",
     killed |-> FALSE, polls |-> 0, start |-> NoStart, last |-> "-",
     seen |-> {}]

Alive(u) == u.pc # "dead"

\* _run: an Exception out of do_scrub is stored with set_thrasher_exception
\* and the greenlet completes.
Captured(u, e) == [u EXCEPT !.pc = "dead", !.exc = e]

\* do_scrub / wait_until_scrub_complete returned normally.
Returned(u) == [u EXCEPT !.pc = "dead"]

\* StartError without the assert on mode of line 48.
StartError_NoModeCheck(resp) ==
    IF resp.json = "None" THEN "AssertionError"
    ELSE IF resp.scrub_tag = "missing" THEN "KeyError"
    ELSE IF resp.scrub_tag = "null" THEN "AssertionError"
    ELSE IF resp.return_code # 0 THEN "AssertionError"
    ELSE "None"

\* The exception lines 42-48 raise on a start response, "None" if none.
StartError(resp) ==
    IF resp.json = "None" THEN "AssertionError"
    ELSE IF resp.scrub_tag = "missing" THEN "KeyError"
    ELSE IF resp.scrub_tag = "null" THEN "AssertionError"
    ELSE IF resp.return_code # 0 THEN "AssertionError"
    ELSE IF resp.mode # "asynchronous" THEN "AssertionError"
    ELSE "None"

\* proceed() of safe_while(sleep=30, tries=tries) followed by the loop body
\* up to its next suspension point.
Proceed(u, tries) ==
    LET c == u.counter + 1 IN
    IF c = 1
        THEN [u EXCEPT !.counter = c, !.pc = "status_wait", !.polls = @ + 1]
    ELSE IF c > tries
        THEN Captured([u EXCEPT !.counter = c], "MaxWhileTries")
    ELSE [u EXCEPT !.counter = c, !.pc = "poll_sleep"]

\* Lines 59-69 on a status response: "return", "continue", or the exception
\* raised.
StatusStep(resp, tag) ==
    IF resp.json = "None" THEN "AssertionError"
    ELSE IF resp.status = "no active scrubs running" THEN "return"
    ELSE IF tag \notin DOMAIN resp.scrubs THEN "KeyError"
    ELSE IF resp.scrubs[tag] # "null" THEN "continue"
    ELSE "return"

\* What a status response says about the tag.
StatusKind(resp, tag) ==
    IF resp.json = "None" THEN "none"
    ELSE IF resp.status = "no active scrubs running" THEN "idle"
    ELSE IF tag \notin DOMAIN resp.scrubs THEN "absent"
    ELSE IF resp.scrubs[tag] = "null" THEN "null"
    ELSE "present"

Saw(u, k) == [u EXCEPT !.last = k, !.seen = @ \cup {k}]

\* The greenlet runs for the first time: do_scrub sends scrub start.
UnitRun(f, i) ==
    /\ i \in 1..Len(scrubbers[f])
    /\ scrubbers[f][i].pc = "scheduled"
    /\ scrubbers' = [scrubbers EXCEPT ![f][i].pc = "start_wait"]
    /\ UNCHANGED <<taskvars, calls, fss, max_mds, scrub_timeout, stopping, lock, cexc, cpc, ranks,
                   tpc, ti, stopped>>

\* rank_tell returns the start response: lines 42-50 and the first proceed().
UnitStartResp(f, i) ==
    /\ i \in 1..Len(scrubbers[f])
    /\ scrubbers[f][i].pc = "start_wait"
    /\ \E resp \in StartResponses :
         LET u == [scrubbers[f][i] EXCEPT !.start = resp]
             e == StartError(resp) IN
         scrubbers' = [scrubbers EXCEPT ![f][i] =
                          IF e # "None" THEN Captured(u, e)
                          ELSE Proceed(u, Tries)]
    /\ UNCHANGED <<taskvars, calls, fss, max_mds, scrub_timeout, stopping, lock, cexc, cpc, ranks,
                   tpc, ti, stopped>>

\* rank_tell raises CommandFailedError on scrub start: nothing in do_scrub
\* catches it.
UnitStartFail(f, i) ==
    /\ i \in 1..Len(scrubbers[f])
    /\ scrubbers[f][i].pc = "start_wait"
    /\ scrubbers' = [scrubbers EXCEPT ![f][i] =
                        Captured([@ EXCEPT !.start.json = "failed"],
                                 "CommandFailedError")]
    /\ UNCHANGED <<taskvars, calls, fss, max_mds, scrub_timeout, stopping, lock, cexc, cpc, ranks,
                   tpc, ti, stopped>>

\* rank_tell returns a status response: lines 59-69, then proceed().
UnitStatusResp(f, i) ==
    /\ i \in 1..Len(scrubbers[f])
    /\ scrubbers[f][i].pc = "status_wait"
    /\ \E resp \in StatusResponses :
         LET tag == scrubbers[f][i].start.scrub_tag
             u == Saw(scrubbers[f][i], StatusKind(resp, tag))
             o == StatusStep(resp, tag) IN
         scrubbers' = [scrubbers EXCEPT ![f][i] =
                          IF o = "return" THEN Returned(u)
                          ELSE IF o = "continue" THEN Proceed(u, Tries)
                          ELSE Captured(u, o)]
    /\ UNCHANGED <<taskvars, calls, fss, max_mds, scrub_timeout, stopping, lock, cexc, cpc, ranks,
                   tpc, ti, stopped>>

\* rank_tell raises CommandFailedError on scrub status: caught at line 70,
\* then proceed().
UnitStatusFail(f, i) ==
    /\ i \in 1..Len(scrubbers[f])
    /\ scrubbers[f][i].pc = "status_wait"
    /\ scrubbers' = [scrubbers EXCEPT ![f][i] = Proceed(Saw(@, "fail"), Tries)]
    /\ UNCHANGED <<taskvars, calls, fss, max_mds, scrub_timeout, stopping, lock, cexc, cpc, ranks,
                   tpc, ti, stopped>>

\* The sleep inside proceed() ends: the loop body sends scrub status.
UnitPoll(f, i) ==
    /\ i \in 1..Len(scrubbers[f])
    /\ scrubbers[f][i].pc = "poll_sleep"
    /\ scrubbers' = [scrubbers EXCEPT ![f][i].pc = "status_wait",
                                      ![f][i].polls = @ + 1]
    /\ UNCHANGED <<taskvars, calls, fss, max_mds, scrub_timeout, stopping, lock, cexc, cpc, ranks,
                   tpc, ti, stopped>>

\* ------------------------------------------------------- ForwardScrubber
\* AllDead for a joinall that returns as soon as a unit has failed.
AllDead_OrFailed(f) ==
    \/ \A i \in 1..Len(scrubbers[f]) : ~Alive(scrubbers[f][i])
    \/ \E i \in 1..Len(scrubbers[f]) : scrubbers[f][i].exc # "None"

\* AllDead for a joinall that returns as soon as one unit is dead.
AllDead_FirstOnly(f) ==
    \/ scrubbers[f] = <<>>
    \/ \E i \in 1..Len(scrubbers[f]) : ~Alive(scrubbers[f][i])

\* joinall(self.scrubbers) can return: every unit of the list is dead.
AllDead(f) == \A i \in 1..Len(scrubbers[f]) : ~Alive(scrubbers[f][i])

\* Launch that leaves the for loop after its first pass.
Launch_FirstOnly(f, rl) ==
    scrubbers[f] \o [i \in 1..(IF Len(rl) > 0 THEN 1 ELSE 0) |-> NewUnit(rl[i])]

\* The for loop of lines 129-136: for each rank construct a unit, append it
\* under the lock and start it.  With the lock free nothing in it suspends.
Launch(f, rl) ==
    scrubbers[f] \o [i \in 1..Len(rl) |-> NewUnit(rl[i])]

\* Line 126, on the first run of the greenlet and after each sleep of line
\* 152: leave the loop if stopping is set, else ask for the ranks.
CoordLoop(f) ==
    /\ cpc[f] \in {"scheduled", "sleep"}
    /\ cpc' = [cpc EXCEPT ![f] = IF stopping[f] THEN "exited" ELSE "discover"]
    /\ UNCHANGED <<taskvars, calls, fss, max_mds, scrub_timeout, stopping, lock, scrubbers, cexc,
                   ranks, tpc, ti, stopped>>

\* get_all_mds_rank returns: lines 129-140, up to the suspension in joinall.
\* lock.acquire of line 131 waits while stop() holds the lock; stop() holds
\* it across a suspension only with units in the list, and then the
\* coordinator is past this point, so the wait is the guard of the action.
CoordDiscover(f) ==
    /\ cpc[f] = "discover"
    /\ lock[f] = "free"
    /\ \E rl \in RankLists(max_mds) :
         /\ ranks' = [ranks EXCEPT ![f] = rl]
         /\ scrubbers' = [scrubbers EXCEPT ![f] = Launch(f, rl)]
    /\ cpc' = [cpc EXCEPT ![f] = "join"]
    /\ UNCHANGED <<taskvars, calls, fss, max_mds, scrub_timeout, stopping, lock, cexc, tpc, ti,
                   stopped>>

\* CoordJoined that clears the list without taking the lock.
CoordJoined_ClearUnlocked(f) ==
    /\ cpc[f] = "join"
    /\ AllDead(f)
    /\ IF \E i \in 1..Len(scrubbers[f]) : scrubbers[f][i].exc # "None"
         THEN /\ cexc' = [cexc EXCEPT ![f] = "RuntimeError"]
              /\ cpc' = [cpc EXCEPT ![f] = "exited"]
              /\ UNCHANGED scrubbers
         ELSE /\ UNCHANGED cexc
              /\ scrubbers' = [scrubbers EXCEPT ![f] = <<>>]
              /\ cpc' = [cpc EXCEPT ![f] = "sleep"]
    /\ UNCHANGED <<taskvars, calls, fss, max_mds, scrub_timeout, stopping, lock,
                   ranks, tpc, ti, stopped>>

\* CoordJoined without the scan of lines 142-144: failures are ignored.
CoordJoined_NoScan(f) ==
    /\ cpc[f] = "join"
    /\ AllDead(f)
    /\ UNCHANGED cexc
    /\ IF lock[f] = "free"
         THEN /\ scrubbers' = [scrubbers EXCEPT ![f] = <<>>]
              /\ cpc' = [cpc EXCEPT ![f] = "sleep"]
         ELSE /\ cpc' = [cpc EXCEPT ![f] = "acquire_clear"]
              /\ UNCHANGED scrubbers
    /\ UNCHANGED <<taskvars, calls, fss, max_mds, scrub_timeout, stopping, lock,
                   ranks, tpc, ti, stopped>>

\* joinall returns, every unit of the list being dead: lines 142-152.  A
\* unit with a captured exception makes do_scrub raise RuntimeError, which
\* _run stores in the coordinator's slot.
CoordJoined(f) ==
    /\ cpc[f] = "join"
    /\ AllDead(f)
    /\ IF \E i \in 1..Len(scrubbers[f]) : scrubbers[f][i].exc # "None"
         THEN /\ cexc' = [cexc EXCEPT ![f] = "RuntimeError"]
              /\ cpc' = [cpc EXCEPT ![f] = "exited"]
              /\ UNCHANGED scrubbers
         ELSE /\ UNCHANGED cexc
              /\ IF lock[f] = "free"
                   THEN /\ scrubbers' = [scrubbers EXCEPT ![f] = <<>>]
                        /\ cpc' = [cpc EXCEPT ![f] = "sleep"]
                   ELSE /\ cpc' = [cpc EXCEPT ![f] = "acquire_clear"]
                        /\ UNCHANGED scrubbers
    /\ UNCHANGED <<taskvars, calls, fss, max_mds, scrub_timeout, stopping, lock, ranks, tpc, ti,
                   stopped>>

\* CoordClear without the clear of line 148.
CoordClear_NoClear(f) ==
    /\ cpc[f] = "acquire_clear"
    /\ lock[f] = "free"
    /\ cpc' = [cpc EXCEPT ![f] = "sleep"]
    /\ UNCHANGED <<taskvars, calls, fss, max_mds, scrub_timeout, stopping, lock,
                   scrubbers, cexc, ranks, tpc, ti, stopped>>

\* lock.acquire of line 146 succeeds after stop() released the lock.
CoordClear(f) ==
    /\ cpc[f] = "acquire_clear"
    /\ lock[f] = "free"
    /\ scrubbers' = [scrubbers EXCEPT ![f] = <<>>]
    /\ cpc' = [cpc EXCEPT ![f] = "sleep"]
    /\ UNCHANGED <<taskvars, calls, fss, max_mds, scrub_timeout, stopping, lock, cexc, ranks, tpc, ti,
                   stopped>>

\* ------------------------------------------------ stop_all_fwd_scrubbers
\* Lines 162-164 after thrasher.stop() returned.
AfterStop(f) == IF cexc[f] # "None" THEN "raised" ELSE "join"

\* Kill with _run catching BaseException: the GreenletExit is stored.
Kill_Captured(u) ==
    IF Alive(u) THEN [u EXCEPT !.pc = "dead", !.killed = TRUE,
                               !.exc = "GreenletExit"]
    ELSE u

\* Kill that throws into units that are dead already.
Kill_Always(u) == [u EXCEPT !.pc = "dead", !.killed = TRUE]

\* GreenletExit thrown into a unit by killall: it is no Exception, so _run
\* does not store it.
Kill(u) == IF Alive(u) THEN [u EXCEPT !.pc = "dead", !.killed = TRUE] ELSE u

\* thrasher.stop() on thrasher ti: stopping.set(), lock.acquire(), killall.
\* killall of an empty list returns at once; otherwise it suspends the
\* caller, holding the lock, until the units are dead.
TStop ==
    /\ tpc = "stop"
    /\ lock[ti] = "free"
    /\ stopping' = [stopping EXCEPT ![ti] = TRUE]
    /\ stopped' = stopped \cup {ti}
    /\ calls' = [calls EXCEPT ![ti] = @ + 1]
    /\ IF scrubbers[ti] = <<>>
         THEN /\ tpc' = AfterStop(ti)
              /\ UNCHANGED lock
         ELSE /\ tpc' = "kill_sched"
              /\ lock' = [lock EXCEPT ![ti] = "stop"]
    /\ UNCHANGED <<taskvars, fss, max_mds, scrub_timeout, scrubbers, cexc, cpc, ranks, ti>>

\* thrasher.stop() called once more on thrasher ti, after stop() returned
\* and before thrasher.join() returns: lines 111-115 as in TStop.
TStopAgain ==
    /\ tpc = "join"
    /\ calls[ti] < MaxStops
    /\ lock[ti] = "free"
    /\ stopping' = [stopping EXCEPT ![ti] = TRUE]
    /\ stopped' = stopped \cup {ti}
    /\ calls' = [calls EXCEPT ![ti] = @ + 1]
    /\ IF scrubbers[ti] = <<>>
         THEN /\ tpc' = AfterStop(ti)
              /\ UNCHANGED lock
         ELSE /\ tpc' = "kill_sched"
              /\ lock' = [lock EXCEPT ![ti] = "stop"]
    /\ UNCHANGED <<taskvars, fss, max_mds, scrub_timeout, scrubbers, cexc, cpc, ranks, ti>>

\* The hub runs killall's callback: GreenletExit is thrown into each unit of
\* the list that is not dead.
TKill ==
    /\ tpc = "kill_sched"
    /\ scrubbers' = [scrubbers EXCEPT ![ti] =
                        [i \in 1..Len(@) |-> Kill(@[i])]]
    /\ tpc' = "kill_wait"
    /\ UNCHANGED <<taskvars, calls, fss, max_mds, scrub_timeout, stopping, lock, cexc, cpc, ranks, ti,
                   stopped>>

\* TStopReturn without the release of line 117.
TStopReturn_KeepLock ==
    /\ tpc = "kill_wait"
    /\ tpc' = AfterStop(ti)
    /\ UNCHANGED <<taskvars, calls, fss, max_mds, scrub_timeout, stopping, lock,
                   scrubbers, cexc, cpc, ranks, ti, stopped>>

\* killall returns in stop(): the lock is released, stop() returns and
\* stop_all_fwd_scrubbers looks at the thrasher's exception.
TStopReturn ==
    /\ tpc = "kill_wait"
    /\ lock' = [lock EXCEPT ![ti] = "free"]
    /\ tpc' = AfterStop(ti)
    /\ UNCHANGED <<taskvars, calls, fss, max_mds, scrub_timeout, stopping, scrubbers, cexc, cpc, ranks,
                   ti, stopped>>

\* thrasher.join() returns, the ForwardScrubber greenlet being dead: on to
\* the next thrasher, or return after the last.
TJoin ==
    /\ tpc = "join"
    /\ cpc[ti] = "exited"
    /\ IF ti = Cardinality(fss)
         THEN tpc' = "returned" /\ UNCHANGED ti
         ELSE tpc' = "stop" /\ ti' = ti + 1
    /\ UNCHANGED <<taskvars, calls, fss, max_mds, scrub_timeout, stopping, lock, scrubbers, cexc, cpc, ranks, stopped>>

\* ------------------------------------------------------------------ task
\* Steady that looks at the first metadata service only.
Steady_FirstOnly(sn) ==
    sn[1] \in {"up:active", "up:standby", "up:standby-replay"}

\* Lines 198-203: every metadata service of the snapshot is in one of the
\* three accepted states.
Steady(sn) ==
    \A d \in DOMAIN sn : sn[d] \in {"up:active", "up:standby", "up:standby-replay"}

\* Lines 214-215.
WithCluster(cfg) ==
    [o \in DOMAIN cfg \cup {"cluster"} |->
        IF o \in DOMAIN cfg THEN cfg[o] ELSE "ceph"]

\* mds_cluster.status() returns (line 196 or 207): leave the loop on a
\* steady snapshot and call wait_for_clean, else sleep and ask again.
TaskStatus ==
    /\ tpc = "status_wait"
    /\ \E sn \in Snapshots :
         /\ snapshot' = sn
         /\ tpc' = IF Steady(sn) THEN "clean_wait" ELSE "status_wait"
    /\ UNCHANGED <<calls, fss, max_mds, scrub_timeout, stopping, lock, scrubbers,
                   cexc, cpc, ranks, ti, stopped, config, clean,
                   sleep_between_iterations>>

\* wait_for_clean returns: lines 212-226.  The assert on is_clean, the
\* default of 'cluster', then one ForwardScrubber per filesystem is
\* constructed from config['scrub_timeout'] and
\* config['sleep_between_iterations'] and started; a missing key raises
\* KeyError before the first is constructed.
TaskStart ==
    /\ tpc = "clean_wait"
    /\ \E c \in BOOLEAN :
         /\ clean' = c
         /\ IF ~c
              THEN /\ tpc' = "assert_failed"
                   /\ UNCHANGED <<config, scrub_timeout, cpc,
                                  sleep_between_iterations>>
              ELSE /\ config' = WithCluster(config)
                   /\ IF {"scrub_timeout", "sleep_between_iterations"}
                            \subseteq DOMAIN config
                        THEN /\ scrub_timeout' = config["scrub_timeout"]
                             /\ sleep_between_iterations' =
                                    config["sleep_between_iterations"]
                             /\ cpc' = [f \in fss |-> "scheduled"]
                             /\ tpc' = "stop"
                        ELSE /\ tpc' = "key_error"
                             /\ UNCHANGED <<scrub_timeout, cpc,
                                            sleep_between_iterations>>
    /\ UNCHANGED <<calls, fss, max_mds, stopping, lock, scrubbers, cexc, ranks,
                   ti, stopped, snapshot>>

\* ------------------------------------------------------- specification
\* task() has constructed and started one ForwardScrubber per filesystem
\* and yielded; stop_all_fwd_scrubbers has not begun.
Started(n, m) ==
    /\ fss = 1..n
    /\ max_mds = m
    /\ scrub_timeout \in TimeoutChoices
    /\ stopping = [f \in fss |-> FALSE]
    /\ lock = [f \in fss |-> "free"]
    /\ scrubbers = [f \in fss |-> <<>>]
    /\ cexc = [f \in fss |-> "None"]
    /\ cpc = [f \in fss |-> "scheduled"]
    /\ ranks = [f \in fss |-> <<>>]
    /\ tpc = "stop"
    /\ ti = 1
    /\ stopped = {}
    /\ calls = [f \in fss |-> 0]
    /\ config = FullConfig(scrub_timeout)
    /\ snapshot = [d \in 1..NumMds |-> "up:active"]
    /\ clean = TRUE
    /\ sleep_between_iterations = config["sleep_between_iterations"]

\* One filesystem with up to MaxRanks ranks.
Init == Started(1, MaxRanks)

\* NumFs filesystems with at most one rank each.
InitMulti == Started(NumFs, 1)

\* task() is entered with some config: no status has been read and no
\* ForwardScrubber exists.  One filesystem with at most one rank.
InitTask ==
    /\ fss = 1..1
    /\ max_mds = 1
    /\ scrub_timeout = 0
    /\ stopping = [f \in fss |-> FALSE]
    /\ lock = [f \in fss |-> "free"]
    /\ scrubbers = [f \in fss |-> <<>>]
    /\ cexc = [f \in fss |-> "None"]
    /\ cpc = [f \in fss |-> "unborn"]
    /\ ranks = [f \in fss |-> <<>>]
    /\ tpc = "status_wait"
    /\ ti = 1
    /\ stopped = {}
    /\ calls = [f \in fss |-> 0]
    /\ config \in Configs
    /\ snapshot = [d \in 1..NumMds |-> "-"]
    /\ clean = FALSE
    /\ sleep_between_iterations = 0

Next ==
    \/ \E f \in fss : \E i \in 1..Len(scrubbers[f]) : UnitRun(f, i)
    \/ \E f \in fss : \E i \in 1..Len(scrubbers[f]) : UnitStartResp(f, i)
    \/ \E f \in fss : \E i \in 1..Len(scrubbers[f]) : UnitStartFail(f, i)
    \/ \E f \in fss : \E i \in 1..Len(scrubbers[f]) : UnitStatusResp(f, i)
    \/ \E f \in fss : \E i \in 1..Len(scrubbers[f]) : UnitStatusFail(f, i)
    \/ \E f \in fss : \E i \in 1..Len(scrubbers[f]) : UnitPoll(f, i)
    \/ \E f \in fss : CoordLoop(f)
    \/ \E f \in fss : CoordDiscover(f)
    \/ \E f \in fss : CoordJoined(f)
    \/ \E f \in fss : CoordClear(f)
    \/ TStop
    \/ TKill
    \/ TStopReturn
    \/ TJoin

Spec == Init /\ [][Next]_vars

SpecMulti == InitMulti /\ [][Next]_vars

\* The whole task, from its entry on.
NextTask == Next \/ TaskStatus \/ TaskStart

SpecTask == InitTask /\ [][NextTask]_vars

\* A driver that may call stop() on a thrasher up to MaxStops times.
NextStop == Next \/ TStopAgain

SpecStop == Init /\ [][NextStop]_vars

\* Cooperative scheduling: the hub runs every greenlet that is ready, and
\* teardown runs because task() calls stop_all_fwd_scrubbers in a finally.
\* Remote commands (rank_tell, get_all_mds_rank) are not assumed to answer.
Fairness ==
    /\ WF_vars(\E f \in fss : CoordLoop(f) \/ CoordJoined(f)
                                \/ CoordClear(f))
    /\ WF_vars(TStop \/ TKill \/ TStopReturn \/ TJoin)

FairSpec == Spec /\ Fairness

\* Fairness with the remote commands answering as well: rank_tell and
\* get_all_mds_rank return or raise, and the sleep of proceed() ends, so a
\* unit that is not dead takes its next step and rank discovery returns.
UnitStep(f, i) ==
    \/ UnitRun(f, i)
    \/ UnitStartResp(f, i)
    \/ UnitStartFail(f, i)
    \/ UnitStatusResp(f, i)
    \/ UnitStatusFail(f, i)
    \/ UnitPoll(f, i)

FairnessAll ==
    /\ Fairness
    /\ WF_vars(\E f \in fss : CoordDiscover(f))
    /\ WF_vars(\E f \in fss : \E i \in 1..Len(scrubbers[f]) : UnitStep(f, i))

FairSpecAll == Spec /\ FairnessAll

\* ------------------------------------------------------------- claims
Units(f) == {scrubbers[f][i] : i \in 1..Len(scrubbers[f])}

Received(u) == u.start.json \in {"None", "dict"}

\* A start response the claims call malformed.
Malformed(resp) ==
    \/ resp.json = "None"
    \/ resp.scrub_tag \in {"missing", "null"}
    \/ resp.return_code # 0
    \/ resp.mode # "asynchronous"

Finished(u) == u.pc = "dead" /\ ~u.killed

CeilTries == (scrub_timeout + PollSleep - 1) \div PollSleep

\* C1: a unit whose start response is malformed (absent, tag missing or
\* null, return_code non-zero, mode not asynchronous) has ended with a
\* captured exception and has issued no status poll; safe_while was never
\* entered.
C1_MalformedStartFails ==
    \A f \in fss : \A u \in Units(f) :
        (Received(u) /\ Malformed(u.start)) =>
            /\ u.pc = "dead"
            /\ u.exc # "None"
            /\ u.polls = 0
            /\ u.counter = 0

C1_Witness ==
    \E f \in fss : \E u \in Units(f) :
        /\ Received(u) /\ u.start.json = "dict" /\ u.start.scrub_tag = "t1"
        /\ u.start.return_code = 0 /\ u.start.mode = "synchronous"
        /\ u.pc = "dead" /\ u.exc = "AssertionError"

\* C2: when stop_all_fwd_scrubbers raises its error, stop() has been called
\* on every registered ForwardScrubber.
C2_AllStoppedBeforeRaise ==
    tpc = "raised" => stopped = fss

\* C3: a unit cancelled by stop() carries no exception; once killall has
\* run, every unit of the list is dead; a coordinator whose units were
\* cancelled mid-poll and none of whose units failed captures no exception,
\* and its in-flight set becomes empty.
MidPollCancelled(f) ==
    /\ f \in stopped
    /\ \E u \in Units(f) : u.killed /\ u.polls >= 1
    /\ \A u \in Units(f) : u.exc = "None"

C3_CancelSafe ==
    \A f \in fss :
        /\ \A u \in Units(f) : u.killed => u.exc = "None"
        /\ (tpc = "kill_wait" /\ ti = f) => AllDead(f)
        /\ MidPollCancelled(f) => cexc[f] = "None"

C3_CancelMidPoll ==
    /\ []C3_CancelSafe
    /\ MidPollCancelled(1) ~> (scrubbers[1] = <<>> /\ cexc[1] = "None")

C3_Witness ==
    /\ MidPollCancelled(1)
    /\ Len(scrubbers[1]) = 2
    /\ \A u \in Units(1) : u.killed /\ u.polls >= 1
    /\ cpc[1] = "acquire_clear"

\* C4: the coordinator enters joinall only with one started unit per
\* discovered rank in the list, in rank order, and leaves joinall only when
\* every one of them is dead; it asks for the ranks again only with the
\* list cleared.
C4_FanOutFanIn ==
    [][\A f \in fss :
        /\ (cpc[f] # "join" /\ cpc'[f] = "join") =>
              /\ Len(scrubbers'[f]) = Len(ranks'[f])
              /\ \A i \in 1..Len(ranks'[f]) :
                    /\ scrubbers'[f][i].rank = ranks'[f][i]
                    /\ scrubbers'[f][i].pc = "scheduled"
        /\ (cpc[f] = "join" /\ cpc'[f] # "join") =>
              /\ Len(scrubbers[f]) = Len(ranks[f])
              /\ \A u \in Units(f) : ~Alive(u)
        /\ cpc'[f] = "discover" => scrubbers'[f] = <<>>]_vars

C4_Witness ==
    \E f \in fss :
        /\ cpc[f] = "sleep"
        /\ Len(ranks[f]) = 2
        /\ scrubbers[f] = <<>>

ValidStart(resp) == resp.json = "dict" /\ ~Malformed(resp)

\* C5: a unit whose last status response showed active scrubs without an
\* entry for its tag has ended without a captured exception.
C5_AbsentTagCompletes ==
    \A f \in fss : \A u \in Units(f) :
        u.last = "absent" => (u.pc = "dead" /\ u.exc = "None")

\* C6: a unit whose start response was valid and whose status polls were
\* all answered or failed transiently never carries a captured exception.
C6_ValidStartNeverRaises ==
    \A f \in fss : \A u \in Units(f) :
        (ValidStart(u.start) /\ "none" \notin u.seen) => u.exc = "None"

\* C7: a unit that finished after status responses which all showed its tag
\* running made exactly scrub_timeout // 30 status attempts and carries no
\* captured exception.
C7_TimeoutIsSoft ==
    \A f \in fss : \A u \in Units(f) :
        (Finished(u) /\ u.seen = {"present"}) =>
            (u.polls = Tries /\ u.exc = "None")

\* C8: a unit whose last status response showed its tag gone from the active
\* scrubs (no active scrubs, no entry for the tag, or a null entry) has
\* ended in success within ceil(scrub_timeout / 30) status attempts.
C8_DisappearedTagSucceeds ==
    \A f \in fss : \A u \in Units(f) :
        u.last \in {"idle", "absent", "null"} =>
            (u.pc = "dead" /\ u.exc = "None" /\ u.polls <= CeilTries)

\* C9: a transient failure of a status poll leaves the exception slot empty
\* while the unit polls on, and a unit all of whose status polls failed
\* transiently finishes after scrub_timeout // 30 attempts with the slot
\* empty.
C9_TransientNeverFatal ==
    \A f \in fss : \A u \in Units(f) :
        /\ (Alive(u) /\ u.last = "fail") => u.exc = "None"
        /\ (Finished(u) /\ u.seen = {"fail"}) =>
              (u.polls = Tries /\ u.exc = "None")

\* C10: the step in which a unit captures a failure changes no sibling; a
\* living unit is ended by GreenletExit only in killall of stop(); and while
\* a unit lives the coordinator stays in joinall with its own slot empty,
\* whatever its siblings captured.
C10_SiblingsUnaffected ==
    [][\A f \in fss :
        /\ Len(scrubbers'[f]) = Len(scrubbers[f]) =>
              \A i \in 1..Len(scrubbers[f]) : \A j \in 1..Len(scrubbers[f]) :
                  /\ (i # j /\ scrubbers[f][i].exc = "None"
                            /\ scrubbers'[f][i].exc # "None") =>
                        scrubbers'[f][j] = scrubbers[f][j]
                  /\ (~scrubbers[f][j].killed /\ scrubbers'[f][j].killed) =>
                        (tpc = "kill_sched" /\ ti = f)
        /\ \A u \in Units(f) :
              Alive(u) => (cpc[f] = "join" /\ cexc[f] = "None")
        /\ \A u \in Units(f) :
              Alive(u) => scrubbers'[f] # <<>>]_vars

C10_Witness ==
    \E f \in fss : \E u \in Units(f) : \E v \in Units(f) :
        /\ u.exc # "None"
        /\ v.exc = "None" /\ Finished(v)
        /\ v.last \in {"idle", "null"} /\ v.polls = 2

\* C11: every return of stop(), from a first or a repeated call, leaves the
\* same end state: stopping set, the lock free, every unit of the list dead
\* and the coordinator's exception slot as it was; a repeated call changes
\* no unit that is dead already and never clears the stopping flag.
StopReturns ==
    /\ tpc' \in {"join", "raised"}
    /\ \/ tpc = "kill_wait"
       \/ tpc \in {"stop", "join"} /\ calls'[ti] = calls[ti] + 1

C11_StopIdempotent ==
    [][/\ StopReturns =>
            /\ stopping'[ti]
            /\ lock'[ti] = "free"
            /\ \A i \in 1..Len(scrubbers'[ti]) : ~Alive(scrubbers'[ti][i])
            /\ cexc' = cexc
       /\ tpc = "kill_sched" =>
            /\ Len(scrubbers'[ti]) = Len(scrubbers[ti])
            /\ \A i \in 1..Len(scrubbers[ti]) :
                  ~Alive(scrubbers[ti][i]) =>
                      scrubbers'[ti][i] = scrubbers[ti][i]
       /\ \A f \in fss : stopping[f] => stopping'[f]]_vars

C11_Witness ==
    /\ calls[1] = 2
    /\ tpc = "join"
    /\ lock[1] = "free"
    /\ stopping[1]
    /\ \E u \in Units(1) : u.killed
    /\ \E u \in Units(1) : Finished(u)

\* C12: stop_all_fwd_scrubbers never returns normally past a ForwardScrubber
\* that has exited with a captured exception: once its join has returned on
\* a thrasher whose slot is filled, it has raised.
C12_FailureSurfaced ==
    \A f \in fss :
        (cpc[f] = "exited" /\ cexc[f] # "None"
            /\ (tpc = "returned" \/ (tpc \in {"stop", "join"} /\ ti > f)))
        => tpc = "raised"

\* C13: whatever options the config leaves out, task() starts every
\* ForwardScrubber without a configuration error, with the config's
\* scrub_timeout and sleep_between_iterations or else with 300 and 1.
C13_DefaultsApplied ==
    tpc \notin {"status_wait", "clean_wait", "assert_failed"} =>
        /\ tpc # "key_error"
        /\ \A f \in fss : cpc[f] # "unborn"
        /\ scrub_timeout =
              IF "scrub_timeout" \in DOMAIN config
                  THEN config["scrub_timeout"] ELSE DefaultScrubTimeout
        /\ sleep_between_iterations =
              IF "sleep_between_iterations" \in DOMAIN config
                  THEN config["sleep_between_iterations"] ELSE DefaultSleep
        /\ config["cluster"] = "ceph"

\* C14: the coordinator captures its RuntimeError exactly in the step that
\* leaves joinall with a failed unit in the list: every unit is dead by
\* then, the step kills or changes no unit, the run ends, and nothing is
\* launched or changed in the list afterwards.
AnyFailed(f) == \E u \in Units(f) : u.exc # "None"

C14_FailureAfterJoin ==
    [][\A f \in fss :
        /\ (cpc[f] = "join" /\ cpc'[f] # "join" /\ AnyFailed(f)) =>
              /\ cexc'[f] = "RuntimeError"
              /\ cpc'[f] = "exited"
              /\ scrubbers'[f] = scrubbers[f]
        /\ (cexc[f] = "None" /\ cexc'[f] # "None") =>
              /\ cpc[f] = "join"
              /\ AnyFailed(f)
              /\ \A u \in Units(f) : ~Alive(u)
        /\ cexc[f] # "None" =>
              /\ cpc[f] = "exited" /\ cpc'[f] = "exited"
              /\ cexc'[f] = cexc[f]
              /\ scrubbers'[f] = scrubbers[f]]_vars

C14_Witness ==
    \E f \in fss :
        /\ cexc[f] = "RuntimeError"
        /\ cpc[f] = "exited"
        /\ \E u \in Units(f) : u.exc # "None"
        /\ \E u \in Units(f) : Finished(u) /\ u.exc = "None" /\ u.polls >= 1

\* C15 as stated: the list is empty at the start and at the end of every
\* iteration and whenever the run has ended, unless stop() is cancelling.
C15_EmptyAtBoundaries ==
    \A f \in fss :
        (/\ cpc[f] \in {"scheduled", "sleep", "discover", "exited"}
         /\ ~(ti = f /\ tpc \in {"kill_sched", "kill_wait"}))
        => scrubbers[f] = <<>>

\* C15 amended: the list is empty at the start and at the end of every
\* iteration and when the run has ended without a captured exception; after
\* a coordination failure it still holds the joined units, all of them dead
\* and one of them failed.
C15_EmptyUnlessFailed ==
    \A f \in fss :
        /\ (\/ cpc[f] \in {"scheduled", "sleep", "discover"}
            \/ cpc[f] = "exited" /\ cexc[f] = "None")
           => scrubbers[f] = <<>>
        /\ (cpc[f] = "exited" /\ cexc[f] # "None") =>
              /\ scrubbers[f] # <<>>
              /\ \A u \in Units(f) : ~Alive(u)
              /\ \E u \in Units(f) : u.exc # "None"

C15_Witness ==
    \E f \in fss :
        /\ cpc[f] = "exited" /\ cexc[f] = "None" /\ stopping[f]
        /\ Len(ranks[f]) = 2
        /\ scrubbers[f] = <<>>

\* C16 as stated: the coordinator's join over the list is inside the lock,
\* so it is never in joinall while stop() holds the lock for killall.
C16_JoinUnderLock ==
    \A f \in fss : cpc[f] = "join" => lock[f] # "stop"

\* C16 amended: the list gains or loses units only in steps that find the
\* lock free (append and clear take it), and a unit is cancelled only while
\* stop() holds it; the join over the list is outside the lock.
C16_MutationsUnderLock ==
    [][\A f \in fss :
        /\ lock[f] = "stop" => Len(scrubbers'[f]) = Len(scrubbers[f])
        /\ \A i \in 1..Len(scrubbers[f]) :
              (Len(scrubbers'[f]) = Len(scrubbers[f])
                  /\ ~scrubbers[f][i].killed /\ scrubbers'[f][i].killed)
              => (lock[f] = "stop" /\ lock'[f] = "stop")]_vars

C16_Witness ==
    \E f \in fss :
        /\ cpc[f] = "acquire_clear"
        /\ lock[f] = "stop"
        /\ tpc = "kill_wait"
        /\ scrubbers[f] # <<>>

\* C17: a ForwardScrubber exists only after task() has read a snapshot in
\* which every metadata service is active, standby or standby-replay and
\* has then been told the storage is clean; a snapshot with a service in
\* another state makes task() ask again and start nothing.
AllAccepted(sn) ==
    \A d \in 1..NumMds : sn[d] \in {"up:active", "up:standby", "up:standby-replay"}

C17_SteadyBeforeStart ==
    [][/\ (\E f \in fss : cpc'[f] # "unborn") =>
              (AllAccepted(snapshot') /\ clean')
       /\ (tpc = "status_wait" /\ ~AllAccepted(snapshot')) =>
              (tpc' = "status_wait" /\ \A f \in fss : cpc'[f] = "unborn")
       /\ (tpc = "clean_wait" /\ ~clean') =>
              (\A f \in fss : cpc'[f] = "unborn")]_vars

C17_Witness ==
    /\ \A f \in fss : cpc[f] = "discover"
    /\ snapshot[1] = "up:standby-replay"
    /\ snapshot[2] = "up:standby"
    /\ clean

\* C18: once stop() has returned on a ForwardScrubber, its list gains no
\* unit, no unit of it sends scrub start and no unit of it sends another
\* scrub status.
StopReturned(f) ==
    f \in stopped /\ ~(ti = f /\ tpc \in {"kill_sched", "kill_wait"})

C18_NothingAfterStop ==
    [][\A f \in fss :
        StopReturned(f) =>
            /\ Len(scrubbers'[f]) <= Len(scrubbers[f])
            /\ Len(scrubbers'[f]) = Len(scrubbers[f]) =>
                  \A i \in 1..Len(scrubbers[f]) :
                      /\ scrubbers'[f][i].polls = scrubbers[f][i].polls
                      /\ ~(scrubbers[f][i].pc = "scheduled"
                            /\ scrubbers'[f][i].pc = "start_wait")]_vars

\* C19: with every greenlet that is ready eventually run and every remote
\* command eventually answered, stop() returns and the lock stays released
\* from then on, the coordinator's run ends and teardown ends (join() has
\* returned, or the error was raised after stop()); a coordinator waiting
\* for the lock that stop() holds always gets it and clears the list.
C19_ShutdownCompletes ==
    /\ <>[](/\ 1 \in stopped
            /\ lock[1] = "free"
            /\ cpc[1] = "exited"
            /\ tpc \in {"returned", "raised"})
    /\ (cpc[1] = "acquire_clear") ~> (cpc[1] = "sleep" /\ scrubbers[1] = <<>>)

C19_Witness ==
    /\ cpc[1] = "acquire_clear"
    /\ lock[1] = "stop"
    /\ tpc = "kill_wait"
    /\ Len(scrubbers[1]) = MaxRanks
    /\ \E u \in Units(1) : u.killed

\* C20: rank discovery returning distinct ranks, no two living units of one
\* coordinator have the same rank; units are added only to an empty list,
\* and a list is emptied only when every unit of it is dead.
DistinctLiving(f) ==
    \A i, j \in 1..Len(scrubbers[f]) :
        (i # j /\ Alive(scrubbers[f][i]) /\ Alive(scrubbers[f][j])) =>
            scrubbers[f][i].rank # scrubbers[f][j].rank

C20_OneUnitPerRank ==
    /\ [](\A f \in fss : DistinctLiving(f))
    /\ [][\A f \in fss :
            /\ Len(scrubbers'[f]) > Len(scrubbers[f]) => scrubbers[f] = <<>>
            /\ Len(scrubbers'[f]) < Len(scrubbers[f]) =>
                  /\ scrubbers'[f] = <<>>
                  /\ \A i \in 1..Len(scrubbers[f]) : ~Alive(scrubbers[f][i])]_vars

C20_Witness ==
    /\ Len(scrubbers[1]) = 2
    /\ scrubbers[1][1].rank = 0 /\ scrubbers[1][1].pc = "status_wait"
    /\ scrubbers[1][2].rank = 1 /\ scrubbers[1][2].pc = "poll_sleep"
    /\ scrubbers[1][1].polls >= 1 /\ scrubbers[1][2].polls >= 1

====
